---- MODULE Spec2Model ----
(***************************************************************************)
(* A model of the skill synchronisation scripts:                           *)
(*   skill-manager/scripts/sync_skill.py      (reconciler, orchestrator)   *)
(*   skill-manager/scripts/scan_and_check.py  (scanner, staleness checker) *)
(*   github-to-skills/scripts/github_to_skill.py (creation-time resolver)  *)
(*                                                                         *)
(* Six specifications share the module:                                    *)
(*   SpecReconcile  sync_directory applied to pairs of directory trees     *)
(*   SpecResolve    the three branch-tip resolvers applied to a remote     *)
(*   SpecCheck      check_updates: a pool of concurrent lookups            *)
(*   SpecSync       main() of sync_skill.py, statement group by group      *)
(*   SpecMetadata   the two preamble updates applied to a document         *)
(*   SpecScan       scan_skills, one loop iteration at a time              *)
(***************************************************************************)
EXTENDS Integers, Sequences, FiniteSets, TLC

VARIABLES
    \* ---- SpecReconcile
    source_dir,     \* the source tree handed to sync_directory
    target_dir,     \* the live target tree
    pre_target,     \* the target tree before the first call
    preview,        \* outcome of the dry_run=True call  (or NoCall)
    applied,        \* outcome of the dry_run=False call (or NoCall)
    phase,          \* "start" | "previewed" | "applied"
    \* ---- SpecResolve
    url_text,       \* the text of the skill's source URL
    github_url,     \* the skill's source URL, the parts the resolvers read
    remote,         \* what git ls-remote answers for each ref of the remote
    resolution,     \* the resolver that ran, its result and the refs it queried
    \* ---- SpecCheck
    skills,         \* the records passed to check_updates, in input order
    futures,        \* per record: its lookup's state and outcome
    results,        \* the list check_updates builds
    returned,       \* check_updates has returned results
    \* ---- SpecSync
    skill_dir,      \* the local skill directory (a tree, or Missing)
    skill_before,   \* skill_dir as this invocation found it
    backup_dirs,    \* the <skill_dir>.backup.<timestamp> siblings made so far
    origin,         \* the remote: refs (ls-remote answers) and commit trees
    args,           \* the flags of this invocation: dry_run, backup, json
    pc,             \* where main() stands
    frontmatter,    \* main's frontmatter (a mapping)
    repo_info,      \* main's repo_info
    remote_hash,    \* main's remote_hash
    temp_dir,       \* the staging directory: absent, present (a tree), removed
    result,         \* main's result dict
    pending,        \* how the try block was left: return, exit1, crash
    exit_code,      \* the process's exit status once pc = "exited"
    ops,            \* the file operations this invocation has performed
    runs,           \* invocations so far
    \* ---- SpecMetadata
    skill_md,       \* the text of a metadata document
    new_metadata,   \* the keys to set in its preamble
    written,        \* what the update wrote or returned (or NoCall)
    \* ---- SpecScan
    skills_root,    \* the directory scan_skills is given (a tree, or Missing)
    scan_pos,       \* how many entries of its listing the loop has taken
    skill_list,     \* the list scan_skills builds
    scan_returned   \* scan_skills has returned

reconVars == <<source_dir, target_dir, pre_target, preview, applied, phase>>
resolveVars == <<url_text, github_url, remote, resolution>>

checkVars == <<skills, futures, results, returned>>

syncVars == <<skill_dir, skill_before, backup_dirs, origin, args, pc, frontmatter,
              repo_info, remote_hash, temp_dir, result, pending, exit_code, ops,
              runs>>

metaVars == <<skill_md, new_metadata, written>>

scanVars == <<skills_root, scan_pos, skill_list, scan_returned>>

vars == <<reconVars, resolveVars, checkVars, syncVars, metaVars, scanVars>>

(***************************************************************************)
(* File names.  A name is kept as its optional leading dot and the rest,   *)
(* which is all that get_syncable_items looks at (item.startswith('.'))    *)
(* besides equality with a member of exclude_patterns.                     *)
(***************************************************************************)
Name(dot, stem) == [dot |-> dot, stem |-> stem]

N_f        == Name(FALSE, "f")
N_d        == Name(FALSE, "d")
N_e        == Name(FALSE, "e")
N_g        == Name(FALSE, "g")
N_k        == Name(FALSE, "k")
N_h        == Name(TRUE,  "h")
N_SKILL    == Name(FALSE, "SKILL.md")
N_git      == Name(TRUE,  "git")
N_pycache  == Name(FALSE, "__pycache__")
N_DS_Store == Name(TRUE,  "DS_Store")
N_starpyc  == Name(FALSE, "*.pyc")
N_gitignore == Name(TRUE, "gitignore")
N_sub      == Name(FALSE, "sub")
N_keep     == Name(FALSE, "keep")

\* os.listdir returns the entries of a directory in an order that is fixed
\* for an unmodified directory; the model fixes one such order.
ListOrder == <<N_git, N_SKILL, N_f, N_d, N_e, N_g, N_h, N_k, N_sub, N_keep,
              N_pycache>>

(***************************************************************************)
(* File contents are sequences of lines, a line a pair <<key, value>>:     *)
(*   <<"---", "">>   a line holding the delimiter                          *)
(*   <<k, v>>        a "k: v" line of a YAML mapping                       *)
(*   <<"", t>>       a line of free text                                   *)
(***************************************************************************)
Text(t) == <<"", t>>
BytesX == << Text("x") >>
BytesY == << Text("y") >>

(***************************************************************************)
(* Trees.                                                                  *)
(***************************************************************************)
File(data) == [kind |-> "file", data |-> data, kids |-> <<>>]
Dir(kids)  == [kind |-> "dir",  data |-> <<>>, kids |-> kids]
EmptyDir   == Dir(<<>>)

isfile(node) == node.kind = "file"
isdir(node)  == node.kind = "dir"

\* os.path.exists(os.path.join(dir, item)): false as well when dir is not a
\* directory (the lookup fails with ENOTDIR, which exists() reports as False)
exists(node, item) == isdir(node) /\ item \in DOMAIN node.kids

\* dir with entry item set to node
WithEntry(dir, item, node) ==
    Dir([n \in (DOMAIN dir.kids) \cup {item} |->
            IF n = item THEN node ELSE dir.kids[n]])

listdir(dir) == SelectSeq(ListOrder, LAMBDA n : n \in DOMAIN dir.kids)

exclude_patterns == {N_git, N_pycache, N_DS_Store, N_starpyc, N_gitignore}

\* (faulty variant: nothing is excluded)
get_syncable_items_skip_nothing(source) == listdir(source)

get_syncable_items(source) ==
    SelectSeq(listdir(source),
              LAMBDA item : ~(item \in exclude_patterns) /\ ~item.dot)

(***************************************************************************)
(* sync_directory.  The outcome of a call is                               *)
(*   raised   whether the call ended in an exception                       *)
(*   changes  the change list built so far (returned when not raised)      *)
(*   target   the target tree as the call leaves it                        *)
(***************************************************************************)
Change(action, type, path) == [action |-> action, type |-> type, path |-> path]

Outcome(raised, changes, target) ==
    [raised |-> raised, changes |-> changes, target |-> target]

\* (faulty variant: the paths are left as the recursive call returned them)
Prefixed_not_at_all(item, changes) == changes

\* change['path'] = os.path.join(item, change['path'])
Prefixed(item, changes) ==
    [i \in 1..Len(changes) |->
        [changes[i] EXCEPT !.path = <<item>> \o changes[i].path]]

\* (faulty variant: the copy is made in a dry run too)
copy_unless_dry_run_ignores_flag(acc, item, node, dry_run) ==
    IF isdir(acc.target)
    THEN [acc EXCEPT !.target = WithEntry(acc.target, item, node)]
    ELSE [acc EXCEPT !.raised = TRUE]

\* (faulty variant: the directory written into is cleared first)
copy_unless_dry_run_pruning(acc, item, node, dry_run) ==
    IF dry_run THEN acc
    ELSE IF isdir(acc.target)
         THEN [acc EXCEPT !.target = Dir((item :> node))]
         ELSE [acc EXCEPT !.raised = TRUE]

\* if not dry_run: shutil.copy2 / shutil.copytree of node to target/item.
\* Writing below a path that is not a directory raises.
copy_unless_dry_run(acc, item, node, dry_run) ==
    IF dry_run THEN acc
    ELSE IF isdir(acc.target)
         THEN [acc EXCEPT !.target = WithEntry(acc.target, item, node)]
         ELSE [acc EXCEPT !.raised = TRUE]

Record(acc, change) == [acc EXCEPT !.changes = Append(acc.changes, change)]

RECURSIVE sync_items(_, _, _, _)
RECURSIVE sync_directory(_, _, _)

\* one iteration of the loop over items, then the rest of the loop
sync_items(items, source, acc, dry_run) ==
    IF items = <<>> \/ acc.raised THEN acc
    ELSE
      LET item == Head(items)
          s    == source.kids[item]
          next ==
            IF isfile(s)
            THEN IF exists(acc.target, item)
                 THEN LET t == acc.target.kids[item] IN
                      IF isdir(t)
                      THEN [acc EXCEPT !.raised = TRUE]   \* open() of a directory
                      ELSE IF s.data = t.data
                           THEN acc
                           ELSE copy_unless_dry_run(
                                  Record(acc, Change("update", "file", <<item>>)),
                                  item, s, dry_run)
                 ELSE copy_unless_dry_run(
                        Record(acc, Change("create", "file", <<item>>)),
                        item, s, dry_run)
            ELSE IF ~exists(acc.target, item)
                 THEN copy_unless_dry_run(
                        Record(acc, Change("create", "directory", <<item>>)),
                        item, s, dry_run)
                 ELSE LET sub == sync_directory(s, acc.target.kids[item], dry_run)
                      IN  [raised  |-> sub.raised,
                           changes |-> acc.changes \o Prefixed(item, sub.changes),
                           target  |-> WithEntry(acc.target, item, sub.target)]
      IN sync_items(Tail(items), source, next, dry_run)

sync_directory(source, target, dry_run) ==
    sync_items(get_syncable_items(source), source,
               Outcome(FALSE, <<>>, target), dry_run)

(***************************************************************************)
(* Metadata documents.  The text of a file is a sequence of tokens:        *)
(*   Delim      an occurrence of the three characters '---'                *)
(*   NL         a line break                                               *)
(*   KV(k, v)   the characters "k: v"                                      *)
(*   Text(t)    other characters                                           *)
(* so SKILL.md reads                                                       *)
(*   Delim NL  KV NL ... KV NL  Delim NL  the body                         *)
(* and a line such as "description: a---b" reads KV, Delim, Text, NL.      *)
(***************************************************************************)
Delim == <<"---", "">>
NL == <<"\n", "">>
KV(k, v) == <<k, v>>
is_kv(tok) == tok[1] # "" /\ tok # Delim /\ tok # NL

\* content.split('---')
RECURSIVE split_acc(_, _, _)
split_acc(content, cur, parts) ==
    IF content = <<>> THEN Append(parts, cur)
    ELSE IF Head(content) = Delim
         THEN split_acc(Tail(content), <<>>, Append(parts, cur))
         ELSE split_acc(Tail(content), Append(cur, Head(content)), parts)
split(content) == split_acc(content, <<>>, <<>>)

\* '---'.join(parts[from:]) (parts numbered from 1)
RECURSIVE join_from(_, _)
join_from(parts, from) ==
    IF from > Len(parts) THEN <<>>
    ELSE IF from = Len(parts) THEN parts[from]
    ELSE parts[from] \o <<Delim>> \o join_from(parts, from + 1)

\* the non-empty lines of a text without delimiters
RECURSIVE lines_acc(_, _, _)
lines_acc(text, cur, lines) ==
    IF text = <<>> THEN IF cur = <<>> THEN lines ELSE Append(lines, cur)
    ELSE IF Head(text) = NL
         THEN lines_acc(Tail(text), <<>>,
                        IF cur = <<>> THEN lines ELSE Append(lines, cur))
         ELSE lines_acc(Tail(text), Append(cur, Head(text)), lines)
splitlines(text) == lines_acc(text, <<>>, <<>>)

\* yaml.safe_load of a text:
\*   no line at all          None
\*   only "k: v" lines       a mapping (a repeated key keeps its last value)
\*   only free text          a string
\*   a mix                   a YAML error is raised
Loaded(tag, map) == [tag |-> tag, map |-> map]
LastValue(lines, k) ==
    LET at == {i \in 1..Len(lines) : lines[i][1][1] = k}
    IN lines[CHOOSE i \in at : \A j \in at : j <= i][1][2]
safe_load(text) ==
    LET lines == splitlines(text) IN
    IF lines = <<>> THEN Loaded("none", <<>>)
    ELSE IF \A i \in 1..Len(lines) : Len(lines[i]) = 1 /\ is_kv(lines[i][1])
         THEN Loaded("map", [k \in {lines[i][1][1] : i \in 1..Len(lines)} |->
                                LastValue(lines, k)])
    ELSE IF \A i \in 1..Len(lines) : \A j \in 1..Len(lines[i]) : ~is_kv(lines[i][j])
         THEN Loaded("str", <<>>)
    ELSE Loaded("error", <<>>)

\* yaml.dump(mapping, default_flow_style=False): one "k: v" line per key, the
\* keys sorted (sort_keys defaults to True)
SortedKeys == <<"created_at", "description", "github_hash", "github_url",
                "name", "note", "version">>
RECURSIVE dump_keys(_, _)
dump_keys(map, keys) ==
    IF keys = <<>> THEN <<>>
    ELSE <<KV(Head(keys), map[Head(keys)]), NL>> \o dump_keys(map, Tail(keys))
dump(map) == dump_keys(map, SelectSeq(SortedKeys, LAMBDA k : k \in DOMAIN map))

\* parse_frontmatter(skill_md_path) on the node at that path:
\* (frontmatter, err), err = "" standing for None
parse_frontmatter(node) ==
    IF ~isfile(node) THEN [frontmatter |-> Loaded("none", <<>>), err |-> "open failed"]
    ELSE LET parts == split(node.data) IN
         IF Len(parts) < 3
         THEN [frontmatter |-> Loaded("none", <<>>),
               err |-> "Invalid SKILL.md format (missing frontmatter)"]
         ELSE LET fm == safe_load(parts[2]) IN
              IF fm.tag = "error"
              THEN [frontmatter |-> Loaded("none", <<>>), err |-> "yaml error"]
              ELSE [frontmatter |-> fm, err |-> ""]

\* frontmatter.get(key, default) on a mapping
get(map, key, default) == IF key \in DOMAIN map THEN map[key] ELSE default

\* existing_fm.update(new_metadata)
update(map, new) ==
    [k \in DOMAIN map \cup DOMAIN new |-> IF k \in DOMAIN new THEN new[k] ELSE map[k]]

\* update_frontmatter_hash(skill_md_path, new_hash) on the node at that path:
\* (ok, err) and the node as the call leaves it
HashUpdate(ok, err, node) == [ok |-> ok, err |-> err, node |-> node]
update_frontmatter_hash(node, new_hash) ==
    IF ~isfile(node) THEN HashUpdate(FALSE, "open failed", node)
    ELSE LET parts == split(node.data) IN
         IF Len(parts) < 3 THEN HashUpdate(FALSE, "Invalid format", node)
         ELSE LET fm == safe_load(parts[2]) IN
              IF fm.tag = "error" THEN HashUpdate(FALSE, "yaml error", node)
              ELSE IF fm.tag # "map"
                   \* frontmatter['github_hash'] = ... on None or on a string
                   THEN HashUpdate(FALSE, "does not support item assignment", node)
              ELSE LET new == [k \in DOMAIN fm.map \cup {"github_hash"} |->
                                  IF k = "github_hash" THEN new_hash ELSE fm.map[k]]
                   IN HashUpdate(TRUE, "",
                        File(<<Delim, NL>> \o dump(new) \o <<Delim>>
                             \o join_from(parts, 3)))

\* github_to_skill.update_frontmatter(content, new_metadata): the text returned
update_frontmatter(text, new) ==
    LET all   == split(text)
        \* content.split('---', 2): at most three parts
        parts == IF Len(all) < 3 THEN all
                 ELSE <<all[1], all[2], join_from(all, 3)>>
    IN IF Len(parts) < 3
       THEN <<Delim, NL>> \o dump(new) \o <<Delim, NL, NL>> \o text
       ELSE LET fm == safe_load(parts[2]) IN
            \* except Exception: return content (a YAML error, or .update on a
            \* string)
            IF fm.tag \in {"error", "str"} THEN text
            ELSE LET existing_fm == IF fm.tag = "none" THEN <<>> ELSE fm.map
                 IN <<Delim, NL>> \o dump(update(existing_fm, new)) \o <<Delim>>
                    \o parts[3]

(***************************************************************************)
(* The trees of SpecReconcile: three levels below the root.                *)
(***************************************************************************)
Files == {File(BytesX), File(BytesY)}

\* every directory over the given names, each name absent or one of nodes(name)
DirsOver(names, nodes(_)) ==
    UNION { { Dir(k) : k \in { f \in [S -> UNION {nodes(n) : n \in names}] :
                                 \A n \in S : f[n] \in nodes(n) } }
          : S \in SUBSET names }

\* below d/e: the file k
DirsE == DirsOver({N_k}, LAMBDA n : Files)

\* below d: the file g, the dotfile .h, and e (a file or a directory)
NodesD(n) == CASE n = N_g -> Files
               [] n = N_h -> {File(BytesX)}
               [] OTHER   -> {File(BytesX)} \cup DirsE
DirsD == DirsOver({N_g, N_h, N_e}, NodesD)

\* below the root: the file f, .git, and d (a file or a directory)
NodesRoot(n) == CASE n = N_f   -> Files
                  [] n = N_git -> {Dir((N_k :> File(BytesX)))}
                  [] OTHER     -> {File(BytesY)} \cup DirsD
ReconcileTrees == DirsOver({N_f, N_git, N_d}, NodesRoot)

(***************************************************************************)
(* Remote references.  git ls-remote <clone_url> <ref> ends in one of      *)
(*   Found(h)  return code 0, stdout "h <ref>"                             *)
(*   Empty     return code 0, empty stdout: the remote has no such ref     *)
(*   Failed    non-zero return code, empty stdout: the remote is not there *)
(*   Timeout   subprocess.run raises TimeoutExpired                        *)
(***************************************************************************)
None == "None"
Hashes == {"h1", "h2"}
Found(h) == [rc |-> 0, stdout |-> h, raises |-> FALSE]
Empty    == [rc |-> 0, stdout |-> "", raises |-> FALSE]
Failed   == [rc |-> 128, stdout |-> "", raises |-> FALSE]
Timeout  == [rc |-> 0, stdout |-> "", raises |-> TRUE]
LookupResults == {Found(h) : h \in Hashes} \cup {Empty, Failed, Timeout}

Branches == {"main", "master", "dev"}
Refs == Branches \cup {"HEAD"}

\* the parts of a source URL the scripts read: the branch named after /tree/
\* ("" when the URL has no /tree/ part), the subpath after the branch, and
\* whether the value is a string at all (YAML also yields numbers)
UrlAt(tree, subpath) == [str |-> TRUE, tree |-> tree, subpath |-> subpath]
Url(tree) == UrlAt(tree, "")
NotAString == [str |-> FALSE, tree |-> "", subpath |-> ""]
has_tree(url) == url.tree # ""

\* extract_repo_info(github_url)['branch'] and parse_github_url(url)[2]
recorded_branch(url) == IF has_tree(url) THEN url.tree ELSE "main"

\* The text of a source URL, as a sequence of pieces: the prefix
\* "https://github.com/", names (owner, repository, branch, directory), "/",
\* the suffix ".git" and the mark "/tree/".  A name holds none of the others.
Scheme   == "https://github.com/"
Slash    == "/"
DotGit   == ".git"
TreeMark == "/tree/"

\* url.rstrip('/')
RECURSIVE rstrip(_)
rstrip(text) ==
    IF text # <<>> /\ text[Len(text)] = Slash
    THEN rstrip(SubSeq(text, 1, Len(text) - 1)) ELSE text

\* url.endswith('.git')
endswith_git(text) == text # <<>> /\ text[Len(text)] = DotGit

\* '/tree/' in url
in_url(piece, text) == \E i \in 1..Len(text) : text[i] = piece

\* the position of the first occurrence of a piece, 0 when there is none
find(piece, text) ==
    IF in_url(piece, text)
    THEN CHOOSE i \in 1..Len(text) :
            text[i] = piece /\ \A j \in 1..(i - 1) : text[j] # piece
    ELSE 0

\* url.split(piece, 1): the text before the first occurrence and the text
\* after it; the whole text alone when the piece does not occur
split_once(text, piece) ==
    LET i == find(piece, text) IN
    IF i = 0 THEN <<text>>
    ELSE <<SubSeq(text, 1, i - 1), SubSeq(text, i + 1, Len(text))>>

\* base.replace('https://github.com/', '').split('/'): the names between the
\* slashes
names_of(text) ==
    SelectSeq(text, LAMBDA piece : piece \notin {Scheme, Slash})

\* a text of one name as that name, "" for the empty text
name_of(text) == IF text = <<>> THEN "" ELSE Head(text)

\* f"https://github.com/{owner}/{repo}.git"
clone_url_of(owner, repo) == <<Scheme, owner, Slash, repo, DotGit>>

\* sync_skill.extract_repo_info(github_url) on the text of a URL
extract_repo_info_of(github_url_text) ==
    LET stripped == rstrip(github_url_text)
        url == IF endswith_git(stripped)
               THEN SubSeq(stripped, 1, Len(stripped) - 1) ELSE stripped
    IN
    IF in_url(TreeMark, url)
    THEN LET halves == split_once(url, TreeMark)
             parts  == split_once(halves[2], Slash)
             base_parts == names_of(halves[1])
         IN [owner |-> base_parts[1], repo |-> base_parts[2],
             branch |-> name_of(parts[1]),
             subpath |-> IF Len(parts) > 1 THEN name_of(parts[2]) ELSE "",
             clone_url |-> clone_url_of(base_parts[1], base_parts[2])]
    ELSE LET parts == names_of(url)
         IN [owner |-> parts[1], repo |-> parts[2],
             branch |-> "main", subpath |-> "",
             clone_url |-> clone_url_of(parts[1], parts[2])]

\* scan_and_check.get_remote_hash(url), lines 28-32: the address it queries
check_clone_url(url) ==
    LET clone_url == IF in_url(TreeMark, url)
                     THEN split_once(url, TreeMark)[1] ELSE url
    IN IF ~endswith_git(clone_url) THEN Append(clone_url, DotGit) ELSE clone_url

\* the parts of a URL text the resolvers read
parts_of(url) ==
    LET info == extract_repo_info_of(url) IN
    UrlAt(IF in_url(TreeMark, url) THEN info.branch ELSE "", info.subpath)

\* the texts of the source URLs: the repository o/r alone or with a
\* /tree/<branch> or /tree/<branch>/<subpath> part, each as it is, with a
\* trailing slash, and the first also with the .git suffix
Repository == <<Scheme, "o", Slash, "r">>
UrlTexts ==
    LET plain == {Repository, Repository \o <<DotGit>>}
        trees == {Repository \o <<TreeMark, b>> : b \in Branches}
                    \cup {Repository \o <<TreeMark, "dev", Slash, "sub">>}
        all   == plain \cup trees
    IN all \cup {t \o <<Slash>> : t \in all}

Resolved(hash, queried) == [result |-> hash, queried |-> queried]

\* the loop "for branch in branches: try ... except: continue", returning at
\* the first lookup with output; need_rc: the loop also tests returncode == 0
RECURSIVE try_branches(_, _, _, _)
try_branches(rem, branches, queried, need_rc) ==
    IF branches = <<>> THEN Resolved(None, queried)
    ELSE LET b == Head(branches)
             r == rem[b]
         IN IF ~r.raises /\ (~need_rc \/ r.rc = 0) /\ r.stdout # ""
            THEN Resolved(r.stdout, Append(queried, b))
            ELSE try_branches(rem, Tail(branches), Append(queried, b), need_rc)

\* the last attempt of scan_and_check.get_remote_hash: HEAD
try_head(rem, sofar) ==
    IF sofar.result # None THEN sofar
    ELSE LET r == rem["HEAD"] IN
         Resolved(IF ~r.raises /\ r.rc = 0 /\ r.stdout # "" THEN r.stdout ELSE None,
                  Append(sofar.queried, "HEAD"))

\* scan_and_check.get_remote_hash(url)
check_get_remote_hash(url, rem) ==
    try_head(rem, try_branches(rem, <<"main", "master">>, <<>>, TRUE))

\* sync_skill.get_remote_hash(clone_url, branch): one try block around both
\* lookups, so an exception in the first returns None at once
sync_get_remote_hash(branch, rem) ==
    LET r == rem[branch] IN
    IF r.raises THEN Resolved(None, <<branch>>)
    ELSE IF r.rc = 0 /\ r.stdout # "" THEN Resolved(r.stdout, <<branch>>)
    ELSE try_head(rem, Resolved(None, <<branch>>))

\* github_to_skill.get_repo_info: branches_to_try
branches_to_try(branch) ==
    IF branch \notin {"main", "master"} THEN <<branch, "main", "master">>
    ELSE <<"main", "master">>

\* github_to_skill.get_repo_info, the latest_hash part ("unknown" is its None)
create_get_latest_hash(url, rem) ==
    LET got == try_branches(rem, branches_to_try(recorded_branch(url)), <<>>, FALSE)
    IN Resolved(IF got.result = None THEN "unknown" ELSE got.result, got.queried)

(***************************************************************************)
(* SpecReconcile: a dry-run preview of a reconcile, then the reconcile.    *)
(***************************************************************************)
NoCall == [called |-> FALSE]

\* the parts of the state a specification does not use
ReconcileIdle ==
    /\ source_dir = EmptyDir /\ target_dir = EmptyDir /\ pre_target = EmptyDir
    /\ preview = NoCall /\ applied = NoCall /\ phase = "idle"
ResolveIdle ==
    /\ url_text = Repository /\ github_url = Url("")
    /\ remote = [r \in Refs |-> Empty]
    /\ resolution = NoCall
CheckIdle ==
    /\ skills = <<>> /\ futures = <<>> /\ results = <<>> /\ returned = FALSE
SyncIdle ==
    /\ skill_dir = EmptyDir /\ skill_before = EmptyDir /\ backup_dirs = <<>>
    /\ origin = [refs |-> [r \in Refs |-> Empty], trees |-> [h \in Hashes |-> EmptyDir]]
    /\ args = [dry_run |-> FALSE, backup |-> FALSE, json |-> FALSE]
    /\ pc = "idle" /\ frontmatter = <<>> /\ repo_info = Url("")
    /\ remote_hash = None /\ temp_dir = [state |-> "absent", tree |-> EmptyDir]
    /\ result = [success |-> FALSE, changes |-> <<>>, message |-> ""]
    /\ pending = "" /\ exit_code = -1 /\ ops = {} /\ runs = 0

MetaIdle ==
    /\ skill_md = <<>> /\ new_metadata = <<>> /\ written = NoCall
ScanIdle ==
    /\ skills_root = EmptyDir /\ scan_pos = 0 /\ skill_list = <<>>
    /\ scan_returned = FALSE

Called(outcome, before) ==
    [called |-> TRUE, before |-> before, raised |-> outcome.raised,
     changes |-> outcome.changes]

InitReconcile ==
    /\ source_dir \in ReconcileTrees
    /\ target_dir \in ReconcileTrees
    /\ pre_target = target_dir
    /\ preview = NoCall
    /\ applied = NoCall
    /\ phase = "start"
    /\ ResolveIdle /\ CheckIdle /\ SyncIdle /\ MetaIdle /\ ScanIdle

\* sync_directory(source_dir, target_dir, dry_run=True)
SyncDryRun ==
    /\ phase = "start"
    /\ LET out == sync_directory(source_dir, target_dir, TRUE) IN
         /\ preview' = Called(out, target_dir)
         /\ target_dir' = out.target
    /\ phase' = "previewed"
    /\ UNCHANGED <<source_dir, pre_target, applied>>
    /\ UNCHANGED <<resolveVars, checkVars, syncVars, metaVars, scanVars>>

\* sync_directory(source_dir, target_dir, dry_run=False)
SyncForReal ==
    /\ phase \in {"start", "previewed"}
    /\ LET out == sync_directory(source_dir, target_dir, FALSE) IN
         /\ applied' = Called(out, target_dir)
         /\ target_dir' = out.target
    /\ phase' = "applied"
    /\ UNCHANGED <<source_dir, pre_target, preview>>
    /\ UNCHANGED <<resolveVars, checkVars, syncVars, metaVars, scanVars>>

NextReconcile == SyncDryRun \/ SyncForReal

SpecReconcile == InitReconcile /\ [][NextReconcile]_vars

(***************************************************************************)
(* SpecResolve: each of the three resolvers applied to a URL and a remote. *)
(***************************************************************************)
Ran(resolver, got) ==
    [called |-> TRUE, resolver |-> resolver, result |-> got.result,
     queried |-> got.queried]

InitResolve ==
    /\ url_text \in UrlTexts
    /\ github_url = parts_of(url_text)
    /\ remote \in [Refs -> LookupResults]
    /\ resolution = NoCall
    /\ ReconcileIdle /\ CheckIdle /\ SyncIdle /\ MetaIdle /\ ScanIdle

\* github_to_skill.py: get_repo_info(url)
ResolveAtCreate ==
    /\ ~resolution.called
    /\ resolution' = Ran("create", create_get_latest_hash(github_url, remote))
    /\ UNCHANGED <<url_text, github_url, remote, reconVars, checkVars, syncVars,
                   metaVars, scanVars>>

\* scan_and_check.py: get_remote_hash(skill['github_url'])
ResolveAtCheck ==
    /\ ~resolution.called
    /\ resolution' = Ran("check", check_get_remote_hash(github_url, remote))
    /\ UNCHANGED <<url_text, github_url, remote, reconVars, checkVars, syncVars,
                   metaVars, scanVars>>

\* sync_skill.py: get_remote_hash(repo_info['clone_url'], repo_info['branch'])
ResolveAtSync ==
    /\ ~resolution.called
    /\ resolution' = Ran("sync",
                         sync_get_remote_hash(recorded_branch(github_url), remote))
    /\ UNCHANGED <<url_text, github_url, remote, reconVars, checkVars, syncVars,
                   metaVars, scanVars>>

NextResolve == ResolveAtCreate \/ ResolveAtCheck \/ ResolveAtSync

SpecResolve == InitResolve /\ [][NextResolve]_vars

(***************************************************************************)
(* check_updates(skills): one get_remote_hash per record on a pool of      *)
(* max_workers threads; the main thread takes the futures as they          *)
(* complete.                                                               *)
(***************************************************************************)
max_workers == 5

\* what executor.submit(get_remote_hash, skill['github_url']) ends in:
\* "'/tree/' in url" raises TypeError for a github_url that is no string
lookup_future(skill) ==
    IF ~skill.github_url.str
    THEN [raised |-> TRUE, value |-> None]
    ELSE [raised |-> FALSE,
          value  |-> check_get_remote_hash(skill.github_url, skill.remote).result]

\* (faulty variant: the comparison is inverted)
status_of_inverted(hash, local_hash) ==
    IF hash = None \/ hash = "" THEN "error"
    ELSE IF hash = local_hash THEN "outdated"
    ELSE "current"

\* the if/elif/else over remote_hash
status_of(hash, local_hash) ==
    IF hash = None \/ hash = "" THEN "error"
    ELSE IF hash # local_hash THEN "outdated"
    ELSE "current"

\* (faulty variant: the except branch does not append)
collected_unless_raised(res, i, skill, outcome) ==
    IF outcome.raised THEN res
    ELSE Append(res, [idx |-> i, remote_hash |-> outcome.value,
                      status |-> status_of(outcome.value, skill.local_hash)])

\* the body of "for future in as_completed(...)" for the future of record i
collected(res, i, skill, outcome) ==
    IF outcome.raised
    THEN Append(res, [idx |-> i, remote_hash |-> None, status |-> "error"])
    ELSE Append(res, [idx |-> i, remote_hash |-> outcome.value,
                      status |-> status_of(outcome.value, skill.local_hash)])

\* the remotes of SpecCheck
RemoteWith(main, master, head) ==
    [r \in Refs |-> CASE r = "main" -> main [] r = "master" -> master
                      [] r = "HEAD" -> head [] OTHER -> Empty]
OnMain     == RemoteWith(Found("h1"), Empty, Found("h1"))
OnMaster   == RemoteWith(Empty, Found("h2"), Found("h2"))
OnHeadOnly == RemoteWith(Timeout, Failed, Found("h1"))
Unreachable == RemoteWith(Timeout, Timeout, Timeout)

Skill(url, rem, local) == [github_url |-> url, remote |-> rem, local_hash |-> local]
CheckSkills ==
    { Skill(Url(""), OnMain, "h1"), Skill(Url(""), OnMain, "unknown"),
      Skill(Url("dev"), OnMaster, "h1"), Skill(Url(""), OnHeadOnly, "h1"),
      Skill(Url(""), Unreachable, "h1"), Skill(NotAString, OnMain, "h1") }

MaxSkills == 3

Queued == [state |-> "queued", raised |-> FALSE, value |-> None]

InitCheck ==
    /\ skills \in UNION { [1..n -> CheckSkills] : n \in 1..MaxSkills }
    /\ futures = [i \in 1..Len(skills) |-> Queued]
    /\ results = <<>>
    /\ returned = FALSE
    /\ ReconcileIdle /\ ResolveIdle /\ SyncIdle /\ MetaIdle /\ ScanIdle

Running == {i \in 1..Len(skills) : futures[i].state = "running"}

\* a pool thread takes the oldest queued work item
WorkerStarts(i) ==
    /\ futures[i].state = "queued"
    /\ \A j \in 1..(i - 1) : futures[j].state # "queued"
    /\ Cardinality(Running) < max_workers
    /\ futures' = [futures EXCEPT ![i].state = "running"]
    /\ UNCHANGED <<skills, results, returned, reconVars, resolveVars, syncVars,
                   metaVars, scanVars>>

\* get_remote_hash returns or raises in its thread
WorkerFinishes(i) ==
    /\ futures[i].state = "running"
    /\ LET out == lookup_future(skills[i]) IN
       futures' = [futures EXCEPT ![i] =
                     [state |-> "done", raised |-> out.raised, value |-> out.value]]
    /\ UNCHANGED <<skills, results, returned, reconVars, resolveVars, syncVars,
                   metaVars, scanVars>>

\* as_completed yields a finished future; the loop body runs for it
Collect(i) ==
    /\ ~returned
    /\ futures[i].state = "done"
    /\ results' = collected(results, i, skills[i], futures[i])
    /\ futures' = [futures EXCEPT ![i].state = "yielded"]
    /\ UNCHANGED <<skills, returned, reconVars, resolveVars, syncVars,
                   metaVars, scanVars>>

\* as_completed is exhausted: return results
CheckReturns ==
    /\ ~returned
    /\ \A i \in 1..Len(skills) : futures[i].state = "yielded"
    /\ returned' = TRUE
    /\ UNCHANGED <<skills, futures, results, reconVars, resolveVars, syncVars,
                   metaVars, scanVars>>

NextCheck ==
    \/ \E i \in 1..Len(skills) : WorkerStarts(i)
    \/ \E i \in 1..Len(skills) : WorkerFinishes(i)
    \/ \E i \in 1..Len(skills) : Collect(i)
    \/ CheckReturns

SpecCheck == InitCheck /\ [][NextCheck]_vars

(***************************************************************************)
(* sync_skill.py main().                                                   *)
(***************************************************************************)
Missing == [kind |-> "missing", data |-> <<>>, kids |-> <<>>]

U_root   == "https://github.com/o/r"
U_devsub == "https://github.com/o/r/tree/dev/sub"

\* the text of a URL held in a metadata document
text_of(url) ==
    IF url = U_devsub THEN Repository \o <<TreeMark, "dev", Slash, "sub">>
    ELSE Repository

\* extract_repo_info(github_url): the branch ("" when the URL names none) and
\* the subpath of the repository information
extract_repo_info(url) == parts_of(text_of(url))

\* os.path.join(temp_dir, repo_info['subpath'])
SubpathName(subpath) == Name(FALSE, subpath)

\* (faulty variant: no short-circuit)
up_to_date_never(local_hash, hash) == FALSE
\* if result['local_hash'] == remote_hash
up_to_date(local_hash, hash) == local_hash = hash

\* git clone --depth 1 --branch <branch>: the checkout of the branch's tip,
\* with its .git directory; fails when the remote has no such branch or does
\* not answer
can_clone(org, branch) ==
    LET r == org.refs[branch] IN ~r.raises /\ r.rc = 0 /\ r.stdout # ""
checkout(org, branch) ==
    WithEntry(org.trees[org.refs[branch].stdout], N_git,
              Dir((N_k :> File(BytesX))))

\* (faulty variant: the cleanup follows the try block instead of being its
\* finally clause)
rmtree_on_return_only(temp, how) ==
    IF how = "return" THEN [state |-> "removed", tree |-> EmptyDir] ELSE temp
\* the finally clause: shutil.rmtree(temp_dir, ignore_errors=True)
rmtree(temp, how) == [state |-> "removed", tree |-> EmptyDir]

Result(success, changes, message) ==
    [success |-> success, changes |-> changes, message |-> message]

\* print the result and sys.exit(code) before the try block
ExitWith(code, message, success) ==
    /\ pc' = "exited"
    /\ exit_code' = code
    /\ result' = Result(success, <<>>, message)

\* lines 261-288: validate the directory, parse SKILL.md, locate the repository
Validate ==
    /\ pc = "start"
    /\ LET parsed == parse_frontmatter(skill_dir.kids[N_SKILL])
           fm     == parsed.frontmatter
           url    == get(fm.map, "github_url", "")
       IN
       IF skill_dir = Missing
       THEN ExitWith(1, "Skill directory not found", FALSE)
            /\ UNCHANGED <<frontmatter, repo_info>>
       ELSE IF ~exists(skill_dir, N_SKILL)
       THEN ExitWith(1, "SKILL.md not found", FALSE)
            /\ UNCHANGED <<frontmatter, repo_info>>
       ELSE IF parsed.err # ""
       THEN ExitWith(1, "Failed to parse SKILL.md", FALSE)
            /\ UNCHANGED <<frontmatter, repo_info>>
       ELSE IF fm.tag # "map"
       \* frontmatter.get on None or on a string: AttributeError, uncaught
       THEN ExitWith(1, "Traceback", FALSE)
            /\ UNCHANGED <<frontmatter, repo_info>>
       ELSE IF url = ""
       THEN ExitWith(1, "No github_url found in frontmatter", FALSE)
            /\ UNCHANGED <<frontmatter, repo_info>>
       ELSE /\ frontmatter' = fm.map
            /\ repo_info' = extract_repo_info(url)
            /\ pc' = "resolve"
            /\ UNCHANGED <<exit_code, result>>
    /\ UNCHANGED <<skill_dir, skill_before, backup_dirs, origin, args, remote_hash,
                   temp_dir, pending, ops, runs>>
    /\ UNCHANGED <<reconVars, resolveVars, checkVars, metaVars, scanVars>>

\* lines 290-305: resolve the remote reference, compare with the local one
Resolve ==
    /\ pc = "resolve"
    /\ LET got   == sync_get_remote_hash(recorded_branch(repo_info), origin.refs).result
           local == get(frontmatter, "github_hash", "unknown")
       IN
       /\ remote_hash' = got
       /\ IF got = None \/ got = ""
          THEN ExitWith(1, "Failed to fetch remote hash", FALSE)
          ELSE IF up_to_date(local, got)
          THEN ExitWith(0, "Already up to date", TRUE)
          ELSE /\ pc' = IF args.backup /\ ~args.dry_run THEN "backup" ELSE "clone"
               /\ UNCHANGED <<exit_code, result>>
    /\ UNCHANGED <<skill_dir, skill_before, backup_dirs, origin, args, frontmatter,
                   repo_info, temp_dir, pending, ops, runs>>
    /\ UNCHANGED <<reconVars, resolveVars, checkVars, metaVars, scanVars>>

\* (faulty variant: the sync goes on after a failed backup)
Backup_goes_on_after_failure ==
    /\ pc = "backup"
    /\ \E backup_ok \in BOOLEAN :
         /\ backup_dirs' = IF backup_ok THEN Append(backup_dirs, skill_dir)
                           ELSE backup_dirs
         /\ ops' = IF backup_ok THEN ops \cup {"backup"} ELSE ops
    /\ pc' = "clone"
    /\ UNCHANGED <<exit_code, result>>
    /\ UNCHANGED <<skill_dir, skill_before, origin, args, frontmatter, repo_info,
                   remote_hash, temp_dir, pending, runs>>
    /\ UNCHANGED <<reconVars, resolveVars, checkVars, metaVars, scanVars>>

\* lines 307-315: backup_skill(skill_dir); copytree may fail
Backup ==
    /\ pc = "backup"
    /\ \E backup_ok \in BOOLEAN :
         IF backup_ok
         THEN /\ backup_dirs' = Append(backup_dirs, skill_dir)
              /\ ops' = ops \cup {"backup"}
              /\ pc' = "clone"
              /\ UNCHANGED <<exit_code, result>>
         ELSE /\ ExitWith(1, "Failed to create backup", FALSE)
              /\ UNCHANGED <<backup_dirs, ops>>
    /\ UNCHANGED <<skill_dir, skill_before, origin, args, frontmatter, repo_info,
                   remote_hash, temp_dir, pending, runs>>
    /\ UNCHANGED <<reconVars, resolveVars, checkVars, metaVars, scanVars>>

\* lines 318-324: mkdtemp, then clone_repo into it
Clone ==
    /\ pc = "clone"
    /\ \E network_ok \in BOOLEAN :
         IF network_ok /\ can_clone(origin, recorded_branch(repo_info))
         THEN /\ temp_dir' = [state |-> "present",
                              tree  |-> checkout(origin, recorded_branch(repo_info))]
              /\ ops' = ops \cup {"mkdtemp", "clone"}
              /\ pc' = "reconcile"
              /\ UNCHANGED <<result, pending>>
         ELSE /\ temp_dir' = [state |-> "present", tree |-> EmptyDir]
              /\ ops' = ops \cup {"mkdtemp"}
              /\ result' = Result(FALSE, <<>>, "Failed to clone repository")
              /\ pending' = "exit1"
              /\ pc' = "finally"
    /\ UNCHANGED <<skill_dir, skill_before, backup_dirs, origin, args, frontmatter,
                   repo_info, remote_hash, exit_code, runs>>
    /\ UNCHANGED <<reconVars, resolveVars, checkVars, metaVars, scanVars>>

\* lines 326-339: pick the source directory, run sync_directory
Reconcile ==
    /\ pc = "reconcile"
    /\ LET sub == repo_info.subpath
           source_exists == sub = "" \/ exists(temp_dir.tree, SubpathName(sub))
           source == IF sub = "" THEN temp_dir.tree
                     ELSE temp_dir.tree.kids[SubpathName(sub)]
       IN
       IF ~source_exists
       THEN /\ result' = Result(FALSE, <<>>, "Subpath not found in repository")
            /\ pending' = "exit1"
            /\ pc' = "finally"
            /\ UNCHANGED <<skill_dir, ops>>
       ELSE IF ~isdir(source)
       \* os.listdir of a file raises
       THEN /\ pending' = "crash"
            /\ pc' = "finally"
            /\ UNCHANGED <<skill_dir, ops, result>>
       ELSE LET out == sync_directory(source, skill_dir, args.dry_run) IN
            /\ skill_dir' = out.target
            /\ ops' = IF out.target # skill_dir THEN ops \cup {"copy"} ELSE ops
            /\ IF out.raised
               THEN /\ pending' = "crash"
                    /\ pc' = "finally"
                    /\ UNCHANGED result
               ELSE IF args.dry_run
               THEN /\ result' = Result(TRUE, out.changes, "Would sync")
                    /\ pending' = "return"
                    /\ pc' = "finally"
               ELSE /\ result' = Result(FALSE, out.changes, "")
                    /\ pc' = "update_hash"
                    /\ UNCHANGED pending
    /\ UNCHANGED <<skill_before, backup_dirs, origin, args, frontmatter, repo_info,
                   remote_hash, temp_dir, exit_code, runs>>
    /\ UNCHANGED <<reconVars, resolveVars, checkVars, metaVars, scanVars>>

\* lines 344-348: result['message'] is assigned the warning when the rewrite
\* failed (line 345), then the summary (line 348)
message_after_rewrite(hash_ok) ==
    LET line345 == IF ~hash_ok THEN "Warning: Failed to update hash" ELSE ""
        line348 == "Synced"
    IN line348

\* lines 341-348: rewrite github_hash, set success and the message
UpdateHash ==
    /\ pc = "update_hash"
    /\ LET upd == update_frontmatter_hash(skill_dir.kids[N_SKILL], remote_hash) IN
       /\ skill_dir' = IF upd.ok THEN WithEntry(skill_dir, N_SKILL, upd.node)
                       ELSE skill_dir
       /\ ops' = IF upd.ok THEN ops \cup {"rewrite"} ELSE ops
       /\ result' = Result(TRUE, result.changes, message_after_rewrite(upd.ok))
    /\ pending' = "return"
    /\ pc' = "finally"
    /\ UNCHANGED <<skill_before, backup_dirs, origin, args, frontmatter, repo_info,
                   remote_hash, temp_dir, exit_code, runs>>
    /\ UNCHANGED <<reconVars, resolveVars, checkVars, metaVars, scanVars>>

\* lines 354-371: printing the result raises TypeError in the text report when
\* the local hash is no string (result['local_hash'][:8], line 360); the JSON
\* report prints any of the values
report_raises(as_json, local_hash) == ~as_json /\ local_hash = None

\* lines 350-371: the finally clause, then the way the try block was left: an
\* exit, an exception, or the report and the end of main
Cleanup ==
    /\ pc = "finally"
    /\ temp_dir' = rmtree(temp_dir, pending)
    /\ ops' = ops \cup {"rmtree"}
    /\ exit_code' =
          IF pending = "return"
             /\ ~report_raises(args.json, get(frontmatter, "github_hash", "unknown"))
          THEN 0 ELSE 1
    /\ pc' = "exited"
    /\ UNCHANGED <<skill_dir, skill_before, backup_dirs, origin, args, frontmatter,
                   repo_info, remote_hash, result, pending, runs>>
    /\ UNCHANGED <<reconVars, resolveVars, checkVars, metaVars, scanVars>>

MaxRuns == 2

\* the command is run again
Invoke ==
    /\ pc = "exited"
    /\ runs < MaxRuns
    /\ args' \in [dry_run : BOOLEAN, backup : BOOLEAN, json : BOOLEAN]
    /\ pc' = "start"
    /\ runs' = runs + 1
    /\ skill_before' = skill_dir
    /\ frontmatter' = <<>> /\ repo_info' = Url("") /\ remote_hash' = None
    /\ temp_dir' = [state |-> "absent", tree |-> EmptyDir]
    /\ result' = Result(FALSE, <<>>, "")
    /\ pending' = "" /\ exit_code' = -1 /\ ops' = {}
    /\ UNCHANGED <<skill_dir, backup_dirs, origin>>
    /\ UNCHANGED <<reconVars, resolveVars, checkVars, metaVars, scanVars>>

\* upstream moves on: every ref at commit h1 now points at h2
RemoteAdvances ==
    /\ pc # "idle"
    /\ \E r \in Refs : origin.refs[r] = Found("h1")
    /\ origin' = [origin EXCEPT !.refs =
                    [r \in Refs |-> IF origin.refs[r] = Found("h1")
                                    THEN Found("h2") ELSE origin.refs[r]]]
    /\ UNCHANGED <<skill_dir, skill_before, backup_dirs, args, pc, frontmatter,
                   repo_info, remote_hash, temp_dir, result, pending, exit_code,
                   ops, runs>>
    /\ UNCHANGED <<reconVars, resolveVars, checkVars, metaVars, scanVars>>

\* ---- the skills and remotes of SpecSync
LocalDoc(url, hash) ==
    << Delim, NL, KV("name", "n"), NL, KV("github_url", url), NL,
       KV("github_hash", hash), NL, KV("note", "mine"), NL, Delim, NL,
       Text("local body"), NL >>
UpstreamDoc ==
    << Delim, NL, KV("name", "n"), NL, KV("description", "d"), NL, Delim, NL,
       Text("upstream body"), NL >>
NoUrlDoc ==
    << Delim, NL, KV("name", "n"), NL, Delim, NL, Text("local body"), NL >>
NoHashDoc ==
    << Delim, NL, KV("github_url", U_root), NL, Delim, NL, Text("local body"), NL >>
EmptyPreambleDoc == << Delim, NL, Delim, NL, Text("local body"), NL >>
PlainDoc == << Text("read me"), NL >>

SkillWith(doc) ==
    Dir((N_SKILL :> File(doc)) @@ (N_f :> File(BytesX)) @@ (N_keep :> File(BytesX)))

SkillDirs ==
    { Missing,
      Dir((N_f :> File(BytesX))),
      SkillWith(PlainDoc), SkillWith(NoUrlDoc), SkillWith(EmptyPreambleDoc),
      SkillWith(NoHashDoc),
      SkillWith(LocalDoc(U_root, "h1")),
      SkillWith(LocalDoc(U_devsub, "h1")),
      \* "github_hash:" without a value, which YAML loads as None
      SkillWith(LocalDoc(U_root, None)),
      \* a local file d where upstream has a directory d
      WithEntry(SkillWith(LocalDoc(U_root, "h1")), N_d, File(BytesX)) }

RefsWith(main, master, dev, head) ==
    [r \in Refs |-> CASE r = "main" -> main [] r = "master" -> master
                      [] r = "dev" -> dev [] OTHER -> head]
OriginRefs ==
    { RefsWith(Found("h2"), Empty, Empty, Found("h2")),
      RefsWith(Found("h1"), Empty, Found("h1"), Found("h1")),
      RefsWith(Empty, Found("h2"), Found("h2"), Found("h2")),
      RefsWith(Timeout, Empty, Timeout, Found("h2")),
      RefsWith(Failed, Failed, Failed, Failed) }

SubTree == Dir((N_f :> File(BytesY)) @@ (N_g :> File(BytesX)))
OriginTrees ==
    { \* upstream ships its own SKILL.md
      [h \in Hashes |->
         IF h = "h1" THEN Dir((N_SKILL :> File(UpstreamDoc)) @@ (N_f :> File(BytesX)))
         ELSE Dir((N_SKILL :> File(UpstreamDoc)) @@ (N_f :> File(BytesY))
                  @@ (N_d :> Dir((N_g :> File(BytesX)))) @@ (N_sub :> SubTree))],
      \* upstream has no SKILL.md
      [h \in Hashes |->
         IF h = "h1" THEN Dir((N_f :> File(BytesX)) @@ (N_sub :> File(BytesX)))
         ELSE Dir((N_f :> File(BytesY)) @@ (N_sub :> SubTree))],
      \* upstream's SKILL.md has no preamble
      [h \in Hashes |->
         IF h = "h1" THEN Dir((N_SKILL :> File(PlainDoc)))
         ELSE Dir((N_SKILL :> File(PlainDoc)) @@ (N_f :> File(BytesY)))] }

InitSync ==
    /\ skill_dir \in SkillDirs
    /\ skill_before = skill_dir
    /\ backup_dirs = <<>>
    /\ origin \in [refs : OriginRefs, trees : OriginTrees]
    /\ args \in [dry_run : BOOLEAN, backup : BOOLEAN, json : BOOLEAN]
    /\ pc = "start"
    /\ frontmatter = <<>> /\ repo_info = Url("") /\ remote_hash = None
    /\ temp_dir = [state |-> "absent", tree |-> EmptyDir]
    /\ result = Result(FALSE, <<>>, "")
    /\ pending = "" /\ exit_code = -1 /\ ops = {} /\ runs = 1
    /\ ReconcileIdle /\ ResolveIdle /\ CheckIdle /\ MetaIdle /\ ScanIdle

NextSync ==
    \/ Validate \/ Resolve \/ Backup \/ Clone \/ Reconcile \/ UpdateHash
    \/ Cleanup \/ Invoke \/ RemoteAdvances

SpecSync == InitSync /\ [][NextSync]_vars

(***************************************************************************)
(* SpecMetadata: the two preamble updates applied to a document.           *)
(***************************************************************************)
\* the lines given, each ended by a line break
RECURSIVE Block(_)
Block(lines) ==
    IF lines = <<>> THEN <<>> ELSE Head(lines) \o <<NL>> \o Block(Tail(lines))

PreTracked == << <<KV("name", "n")>>, <<KV("github_url", U_root)>>,
                 <<KV("github_hash", "h1")>> >>
PreSorted  == << <<KV("github_hash", "h1")>>, <<KV("name", "n")>> >>
PreNote    == << <<KV("note", "mine")>>, <<KV("github_url", U_root)>> >>
PreEmpty   == << >>
\* "description: a---b" between name and github_url
PreDashes  == << <<KV("name", "n")>>, <<KV("description", "a"), Delim, Text("b")>>,
                 <<KV("github_url", U_root)>> >>
PreText    == << <<Text("just text")>> >>
PreMixed   == << <<KV("name", "n")>>, <<Text("junk")>> >>
Preambles  == {PreTracked, PreSorted, PreNote, PreEmpty, PreDashes, PreText,
               PreMixed}

Bodies ==
    { << >>,
      << <<Text("body")>> >>,
      \* a horizontal rule in the body
      << <<Text("intro")>>, <<Delim>>, <<Text("more")>> >>,
      \* '---' within a line of the body
      << <<Text("x"), Delim, Text("y")>> >> }

Doc(pre, body) == <<Delim, NL>> \o Block(pre) \o <<Delim, NL>> \o Block(body)

Documents ==
    { Doc(pre, body) : pre \in Preambles, body \in Bodies }
    \cup { PlainDoc, <<Delim, NL>> \o Block(PreTracked) }

UpdateSets ==
    { << >>,
      ("github_hash" :> "h1"),
      ("github_hash" :> "h2"),
      ("note" :> "theirs"),
      ("name" :> "m") @@ ("version" :> "0.1.0"),
      ("name" :> "m") @@ ("github_url" :> U_devsub) @@ ("github_hash" :> "h2")
         @@ ("version" :> "0.1.0") @@ ("created_at" :> "t") }

Wrote(by, ok, text) == [called |-> TRUE, by |-> by, ok |-> ok, text |-> text]

InitMetadata ==
    /\ skill_md \in Documents
    /\ new_metadata \in UpdateSets
    /\ written = NoCall
    /\ ReconcileIdle /\ ResolveIdle /\ CheckIdle /\ SyncIdle /\ ScanIdle

\* github_to_skill.py: update_frontmatter(repo_info['skill_md'], metadata)
UpdateFrontmatter ==
    /\ ~written.called
    /\ written' = Wrote("update_frontmatter", TRUE,
                        update_frontmatter(skill_md, new_metadata))
    /\ UNCHANGED <<skill_md, new_metadata>>
    /\ UNCHANGED <<reconVars, resolveVars, checkVars, syncVars, scanVars>>

\* sync_skill.py: update_frontmatter_hash(skill_md_path, new_hash) on a file
\* holding the document
UpdateFrontmatterHash ==
    /\ ~written.called
    /\ DOMAIN new_metadata = {"github_hash"}
    /\ LET upd == update_frontmatter_hash(File(skill_md), new_metadata["github_hash"])
       IN written' = Wrote("update_frontmatter_hash", upd.ok, upd.node.data)
    /\ UNCHANGED <<skill_md, new_metadata>>
    /\ UNCHANGED <<reconVars, resolveVars, checkVars, syncVars, scanVars>>

NextMetadata == UpdateFrontmatter \/ UpdateFrontmatterHash

SpecMetadata == InitMetadata /\ [][NextMetadata]_vars

(***************************************************************************)
(* SpecScan: scan_skills(skills_root), one iteration of its loop at a time. *)
(***************************************************************************)
\* the body of "for item in os.listdir(skills_root)" for one entry: the list
\* with the entry's record appended, or the list as it was
scan_item(list, item, node) ==
    IF ~isdir(node) THEN list
    ELSE IF ~exists(node, N_SKILL) THEN list
    ELSE LET skill_md_node == node.kids[N_SKILL] IN
         \* open() of a directory raises; except Exception: pass
         IF ~isfile(skill_md_node) THEN list
         ELSE LET parts == split(skill_md_node.data) IN
              IF Len(parts) < 3 THEN list
              ELSE LET fm == safe_load(parts[2]) IN
                   \* a YAML error is caught; None is falsy; on a string the
                   \* test is false or the subscript raises and is caught
                   IF fm.tag # "map" THEN list
                   ELSE IF "github_url" \notin DOMAIN fm.map THEN list
                   ELSE Append(list,
                          [name          |-> get(fm.map, "name", item.stem),
                           dir           |-> item,
                           github_url    |-> fm.map["github_url"],
                           local_hash    |-> get(fm.map, "github_hash", "unknown"),
                           local_version |-> get(fm.map, "version", "0.0.0")])

\* "description: a---b" after github_url
PreDashesLast == << <<KV("github_url", U_root)>>,
                    <<KV("description", "a"), Delim, Text("b")>> >>

\* what a root directory holds under a name
ScanDocs ==
    { Doc(PreTracked, << <<Text("body")>> >>),
      Doc(PreTracked, << <<Text("intro")>>, <<Delim>>, <<Text("more")>> >>),
      Doc(PreNote, << >>),
      Doc(PreSorted, << <<Text("body")>> >>),
      Doc(PreEmpty, << <<Text("body")>> >>),
      Doc(PreText, << <<Text("body")>> >>),
      Doc(PreMixed, << <<Text("body")>> >>),
      Doc(PreDashes, << <<Text("body")>> >>),
      Doc(PreDashesLast, << <<Text("body")>> >>),
      PlainDoc }
ScanEntries ==
    { File(BytesX),
      Dir((N_f :> File(BytesX))),
      \* SKILL.md is a directory
      Dir((N_SKILL :> EmptyDir)),
      \* a skill one level further down
      Dir((N_sub :> Dir((N_SKILL :> File(Doc(PreTracked, << >>)))))) }
    \cup { Dir((N_SKILL :> File(doc))) : doc \in ScanDocs }
ScanRoots == {Missing} \cup DirsOver({N_d, N_e, N_g}, LAMBDA n : ScanEntries)

InitScan ==
    /\ skills_root \in ScanRoots
    /\ scan_pos = 0
    /\ skill_list = <<>>
    /\ scan_returned = FALSE
    /\ ReconcileIdle /\ ResolveIdle /\ CheckIdle /\ SyncIdle /\ MetaIdle

\* if not os.path.exists(skills_root): return []
ScanMissingRoot ==
    /\ ~scan_returned
    /\ skills_root = Missing
    /\ scan_returned' = TRUE
    /\ UNCHANGED <<skills_root, scan_pos, skill_list>>
    /\ UNCHANGED <<reconVars, resolveVars, checkVars, syncVars, metaVars>>

\* one iteration of the loop over os.listdir(skills_root)
ScanItem ==
    /\ ~scan_returned
    /\ skills_root # Missing
    /\ scan_pos < Len(listdir(skills_root))
    /\ LET item == listdir(skills_root)[scan_pos + 1] IN
       skill_list' = scan_item(skill_list, item, skills_root.kids[item])
    /\ scan_pos' = scan_pos + 1
    /\ UNCHANGED <<skills_root, scan_returned>>
    /\ UNCHANGED <<reconVars, resolveVars, checkVars, syncVars, metaVars>>

\* the loop is over: return skill_list
ScanReturns ==
    /\ ~scan_returned
    /\ skills_root # Missing
    /\ scan_pos = Len(listdir(skills_root))
    /\ scan_returned' = TRUE
    /\ UNCHANGED <<skills_root, scan_pos, skill_list>>
    /\ UNCHANGED <<reconVars, resolveVars, checkVars, syncVars, metaVars>>

NextScan == ScanMissingRoot \/ ScanItem \/ ScanReturns

SpecScan == InitScan /\ [][NextScan]_vars

(***************************************************************************)
(* The claims.                                                             *)
(***************************************************************************)
Statuses == {"current", "outdated", "error"}

\* the node of a tree at a path of names, Missing when there is none
RECURSIVE NodeAt(_, _)
NodeAt(tree, path) ==
    IF path = <<>> THEN tree
    ELSE IF exists(tree, Head(path)) THEN NodeAt(tree.kids[Head(path)], Tail(path))
    ELSE Missing

\* the paths of all files and directories below a tree
RECURSIVE Paths(_)
Paths(tree) ==
    IF ~isdir(tree) THEN {}
    ELSE UNION { {<<n>>} \cup {<<n>> \o q : q \in Paths(tree.kids[n])}
                 : n \in DOMAIN tree.kids }

\* a node is kept: still there, a file with the same bytes or a directory
Kept(before, after) ==
    /\ after.kind = before.kind
    /\ isfile(before) => after.data = before.data

\* C1 (as claimed): the dry run returns what the real run returns, and
\* leaves the target as it found it.
C1_DryRunMatchesRealRun ==
    /\ (phase = "previewed" => target_dir = pre_target)
    /\ (preview.called /\ applied.called) =>
          /\ preview.raised = applied.raised
          /\ (~applied.raised => preview.changes = applied.changes)

\* the source of the reconcile of the running sync: the staging checkout (its
\* subpath), an empty tree while there is none
SyncSource ==
    IF temp_dir.state # "present" THEN EmptyDir
    ELSE IF repo_info.subpath = "" THEN temp_dir.tree
    ELSE NodeAt(temp_dir.tree, <<SubpathName(repo_info.subpath)>>)

\* C2 (as claimed): no step of a sync changes or removes a file or directory
\* of the skill directory that has no counterpart in the source.
C2_TargetOnlyEntriesUntouched ==
    [][\A p \in Paths(skill_dir) :
          NodeAt(SyncSource, p) = Missing
             => Kept(NodeAt(skill_dir, p), NodeAt(skill_dir', p))]_vars

\* C2 (amended): no step of a sync changes or removes a file or directory of
\* the skill directory that has no counterpart in the source, except the
\* skill's own metadata document SKILL.md, which the sync rewrites.
C2_TargetOnlyEntriesUntouchedButSkillMd ==
    [][\A p \in Paths(skill_dir) :
          (NodeAt(SyncSource, p) = Missing /\ p # <<N_SKILL>>)
             => Kept(NodeAt(skill_dir, p), NodeAt(skill_dir', p))]_vars

C2_Witness ==
    /\ pc = "exited" /\ result.message = "Synced"
    /\ {"copy", "rewrite"} \subseteq ops
    /\ NodeAt(skill_before, <<N_keep>>) = File(BytesX)
    /\ NodeAt(skill_dir, <<N_keep>>) = File(BytesX)

\* C3 (as claimed): after a successful non-dry-run sync SKILL.md still has
\* every preamble key it had before, with the same value, and its github_hash
\* is the resolved remote reference.
C3_SyncKeepsPreambleKeys ==
    (pc = "exited" /\ result.success /\ result.message = "Synced") =>
       LET after == parse_frontmatter(NodeAt(skill_dir, <<N_SKILL>>)) IN
       /\ after.err = ""
       /\ after.frontmatter.tag = "map"
       /\ \A k \in DOMAIN frontmatter \ {"github_hash"} :
             /\ k \in DOMAIN after.frontmatter.map
             /\ after.frontmatter.map[k] = frontmatter[k]
       /\ get(after.frontmatter.map, "github_hash", "unknown") = remote_hash

\* C4: a record's status is error iff its lookup raised or resolved nothing,
\* outdated iff it resolved a reference other than the recorded one, current
\* iff it resolved the recorded one.
C4_StatusFollowsResolution ==
    \A k \in 1..Len(results) :
       LET r        == results[k]
           f        == futures[r.idx]
           resolved == ~f.raised /\ f.value # None
           local    == skills[r.idx].local_hash
       IN /\ (r.status = "error")    <=> ~resolved
          /\ (r.status = "outdated") <=> (resolved /\ f.value # local)
          /\ (r.status = "current")  <=> (resolved /\ f.value = local)

C4_Witness ==
    /\ returned
    /\ \A st \in Statuses : \E k \in 1..Len(results) : results[k].status = st

\* C5 (as claimed): the returned list is as long as the input and its i-th
\* element is the result for the i-th record.
C5_ResultsInInputOrder ==
    returned =>
       /\ Len(results) = Len(skills)
       /\ \A i \in 1..Len(results) : results[i].idx = i

\* the status check_updates gives a record whatever else is in the batch
LookupFails(skill) ==
    LET out == lookup_future(skill) IN out.raised \/ out.value = None
StatusAlone(skill) ==
    IF LookupFails(skill) THEN "error"
    ELSE IF lookup_future(skill).value # skill.local_hash THEN "outdated"
    ELSE "current"

\* C6: a failed lookup gives error to its own record only: every record has
\* exactly one result, with a status of the three, and the status each record
\* would have without the others.
C6_FailureStaysWithItsRecord ==
    returned =>
       /\ Len(results) = Len(skills)
       /\ \A i \in 1..Len(skills) :
             Cardinality({k \in 1..Len(results) : results[k].idx = i}) = 1
       /\ \A k \in 1..Len(results) :
             /\ results[k].status \in Statuses
             /\ LookupFails(skills[results[k].idx]) => results[k].status = "error"
             /\ results[k].status = StatusAlone(skills[results[k].idx])

C6_Witness ==
    /\ returned
    /\ \E k \in 1..Len(results) :
          futures[results[k].idx].raised /\ results[k].status = "error"
    /\ \E k \in 1..Len(results) : results[k].status = "current"
    /\ \E k \in 1..Len(results) : results[k].status = "outdated"

\* a lookup without a reference: empty output, a failure or a timeout
Unsuccessful(r) == r.raises \/ r.rc # 0 \/ r.stdout = ""

\* the attempts up to and including the first successful one
RECURSIVE UpToFirstSuccess(_, _)
UpToFirstSuccess(rem, attempts) ==
    IF attempts = <<>> THEN <<>>
    ELSE IF ~Unsuccessful(rem[Head(attempts)]) THEN <<Head(attempts)>>
    ELSE <<Head(attempts)>> \o UpToFirstSuccess(rem, Tail(attempts))

\* C7 (as claimed): the checker's and the sync's resolver go on to the next
\* candidate after an empty, failed or timed-out lookup alike, query HEAD after
\* the last named branch, and return none only if every attempt was
\* unsuccessful.
C7_EveryFailureGoesOnToNextCandidate ==
    (resolution.called /\ resolution.resolver \in {"check", "sync"}) =>
       LET named    == IF resolution.resolver = "check" THEN <<"main", "master">>
                       ELSE <<recorded_branch(github_url)>>
           attempts == named \o <<"HEAD">>
       IN /\ resolution.queried = UpToFirstSuccess(remote, attempts)
          /\ (resolution.result = None)
                <=> (\A i \in 1..Len(attempts) : Unsuccessful(remote[attempts[i]]))

\* the candidate order of the branch policy
CandidateOrder(branch) ==
    IF branch \in {"main", "master"} THEN <<"main", "master">>
    ELSE <<branch, "main", "master">>

NamedQueried(queried) == SelectSeq(queried, LAMBDA r : r # "HEAD")

\* C8 (as claimed): a resolution tries the named branches in the order
\* [main, master] for a recorded branch main or master, [recorded, main,
\* master] otherwise, up to the first that answers, none of them twice.
C8_BranchesTriedInPolicyOrder ==
    (resolution.called /\ resolution.resolver \in {"create", "sync"}) =>
       LET named == NamedQueried(resolution.queried) IN
       /\ named = UpToFirstSuccess(remote, CandidateOrder(recorded_branch(github_url)))
       /\ \A i, j \in 1..Len(resolution.queried) :
             i # j => resolution.queried[i] # resolution.queried[j]

\* C9: a sync whose recorded hash equals the resolved remote hash reports
\* success with "Already up to date", exits with zero and has performed no
\* file operation.
C9_UpToDateDoesNothing ==
    (pc = "exited" /\ remote_hash # None
        /\ get(frontmatter, "github_hash", "unknown") = remote_hash) =>
       /\ result.success /\ result.message = "Already up to date"
       /\ exit_code = 0
       /\ ops = {}
       /\ temp_dir.state = "absent"
       /\ skill_dir = skill_before

C9_Witness ==
    /\ pc = "exited" /\ result.message = "Already up to date"
    /\ args.backup /\ ~args.dry_run
    /\ remote_hash = "h1"

\* C10: a sync that created a staging directory has removed it when it ends.
C10_StagingRemovedOnEveryExit ==
    (pc = "exited" /\ "mkdtemp" \in ops) => temp_dir.state = "removed"

C10_Witness ==
    /\ pc = "exited" /\ pending = "crash" /\ "copy" \in ops
    /\ temp_dir.state = "removed"

\* the messages of a sync that fails in its backup, its clone or for a missing
\* subpath
AbortMessages == {"Failed to create backup", "Failed to clone repository",
                  "Subpath not found in repository"}

\* the skill directory has been written to in this invocation
Written == skill_dir # skill_before \/ ops \cap {"copy", "rewrite"} # {}

\* C11: a sync that fails in its backup, its clone or for a missing subpath
\* exits with the skill directory as it found it; and whenever the skill
\* directory has been written to, the clone succeeded, the source exists in it
\* and the backup, when requested, was made.
C11_AbortLeavesSkillUntouched ==
    /\ (pc = "exited" /\ result.message \in AbortMessages) =>
          /\ skill_dir = skill_before
          /\ ops \cap {"copy", "rewrite"} = {}
          /\ ~result.success /\ exit_code = 1
    /\ Written =>
          /\ "clone" \in ops
          /\ temp_dir.state = "present" => SyncSource # Missing
          /\ args.backup => "backup" \in ops

C11_Witness ==
    /\ pc = "exited" /\ result.message = "Failed to clone repository"
    /\ args.backup /\ "backup" \in ops /\ "mkdtemp" \in ops
    /\ skill_dir = skill_before

\* this invocation reconciled the files and then failed to rewrite SKILL.md
RewriteFailed ==
    /\ pc = "exited" /\ pending = "return" /\ ~args.dry_run
    /\ "rewrite" \notin ops

\* C12 (as claimed): when the rewrite of SKILL.md fails after the reconcile,
\* the copied files stay and the result's final message is the warning that
\* names the failure.
C12_RewriteFailureIsReported ==
    RewriteFailed =>
       /\ \A i \in 1..Len(result.changes) :
             NodeAt(skill_dir, result.changes[i].path) # Missing
       /\ result.message = "Warning: Failed to update hash"

\* the skill directory holds a skill the sync can track: a SKILL.md whose
\* preamble parses to a mapping with a github_url
Trackable(dir) ==
    /\ dir # Missing
    /\ exists(dir, N_SKILL)
    /\ LET parsed == parse_frontmatter(dir.kids[N_SKILL]) IN
       /\ parsed.err = ""
       /\ parsed.frontmatter.tag = "map"
       /\ get(parsed.frontmatter.map, "github_url", "") # ""

\* the sync operation failed: backup, clone, missing subpath, or an error
\* raised while reconciling
SyncFailed == result.message \in AbortMessages \/ pending = "crash"

\* C13 (as claimed): the command exits with a non-zero status exactly when the
\* skill is not trackable, the remote reference was not resolved, or the sync
\* operation failed, and with zero otherwise.
C13_NonZeroExitExactlyOnFailure ==
    pc = "exited" =>
       ((exit_code # 0) <=>
           (~Trackable(skill_before) \/ remote_hash = None \/ SyncFailed))

\* The document format itself: the text begins with a delimiter line, the
\* preamble runs to the next delimiter line, the body follows it.  A line of
\* the preamble is a key and its value, in which '---' may occur.
IsDelimLine(text, i) ==
    /\ text[i] = Delim
    /\ (i = 1 \/ text[i - 1] = NL)
    /\ (i = Len(text) \/ text[i + 1] = NL)
ClosingDelims(text) == {i \in 2..Len(text) : IsDelimLine(text, i)}
Closing(text) == CHOOSE i \in ClosingDelims(text) : \A j \in ClosingDelims(text) : i <= j
PreambleLines(text) == splitlines(SubSeq(text, 2, Closing(text) - 1))
HasValidPreamble(text) ==
    /\ text # <<>> /\ IsDelimLine(text, 1)
    /\ ClosingDelims(text) # {}
    /\ \A i \in 1..Len(PreambleLines(text)) : is_kv(PreambleLines(text)[i][1])
\* the preamble as a mapping from each key to its line
PreambleOf(text) ==
    LET lines == PreambleLines(text) IN
    [k \in {lines[i][1][1] : i \in 1..Len(lines)} |->
        lines[CHOOSE i \in 1..Len(lines) : lines[i][1][1] = k]]
BodyOf(text) == SubSeq(text, Closing(text) + 1, Len(text))

\* C14 (as claimed): the preamble an update writes to a document with a valid
\* preamble has every existing key outside the update set with its value
\* unchanged, every key of the update set with the update's value, and no
\* other key.
C14_UpdateMergesPreamble ==
    (written.called /\ written.ok /\ HasValidPreamble(skill_md)) =>
       /\ HasValidPreamble(written.text)
       /\ LET old == PreambleOf(skill_md)
              new == PreambleOf(written.text)
          IN /\ DOMAIN new = DOMAIN old \cup DOMAIN new_metadata
             /\ \A k \in DOMAIN new_metadata : new[k] = <<KV(k, new_metadata[k])>>
             /\ \A k \in DOMAIN old \ DOMAIN new_metadata : new[k] = old[k]

\* the update changes no value: no key at all, or the github_hash the
\* document already has
EmptyUpdate ==
    \/ new_metadata = << >>
    \/ /\ DOMAIN new_metadata = {"github_hash"}
       /\ "github_hash" \in DOMAIN PreambleOf(skill_md)
       /\ PreambleOf(skill_md)["github_hash"]
             = <<KV("github_hash", new_metadata["github_hash"])>>

\* C15 (as claimed): an update that changes no value writes a document with a
\* valid preamble back as it was, token for token, body included.
C15_RoundTripIsIdentity ==
    (written.called /\ written.ok /\ HasValidPreamble(skill_md) /\ EmptyUpdate) =>
       /\ written.text = skill_md
       /\ HasValidPreamble(written.text)
       /\ BodyOf(written.text) = BodyOf(skill_md)

\* a name the reconciler passes over
Ignored(n) == n \in exclude_patterns \/ n.dot

\* the paths below a tree none of whose segments the reconciler passes over
SyncablePaths(tree) ==
    {p \in Paths(tree) : \A i \in 1..Len(p) : ~Ignored(p[i])}

\* the sync_directory call made last, and the target as it left it
LastCall == IF phase = "previewed" THEN preview ELSE applied

\* every file of the source, ignored ones too, has a byte-identical file as
\* its counterpart in the target
FilesIdentical(source, target) ==
    \A p \in Paths(source) :
       isfile(NodeAt(source, p)) => NodeAt(target, p) = NodeAt(source, p)

\* every file of the source that is not passed over has a byte-identical file
\* as its counterpart, and every such directory a directory
EntriesPresent(source, target) ==
    \A p \in SyncablePaths(source) :
       IF isfile(NodeAt(source, p)) THEN NodeAt(target, p) = NodeAt(source, p)
       ELSE isdir(NodeAt(target, p))

\* C16 (as claimed): when every file of the source is byte-identical to its
\* counterpart in the target, sync_directory returns an empty change list and
\* leaves the target as it was, dry run or not.
C16_IdenticalFilesNoChange ==
    (LastCall.called /\ FilesIdentical(source_dir, LastCall.before)) =>
       /\ ~LastCall.raised
       /\ LastCall.changes = <<>>
       /\ target_dir = LastCall.before

\* C16 (amended): when every file of the source that is not ignored is
\* byte-identical to its counterpart in the target and every directory of the
\* source that is not ignored exists in the target, sync_directory returns an
\* empty change list and leaves the target as it was, dry run or not.
C16_PresentEntriesNoChange ==
    (LastCall.called /\ EntriesPresent(source_dir, LastCall.before)) =>
       /\ ~LastCall.raised
       /\ LastCall.changes = <<>>
       /\ target_dir = LastCall.before

C16_Witness ==
    /\ phase = "applied" /\ preview.called
    /\ EntriesPresent(source_dir, applied.before)
    /\ isfile(NodeAt(source_dir, <<N_d, N_e, N_k>>))
    /\ isfile(NodeAt(source_dir, <<N_f>>))
    /\ exists(source_dir, N_git) /\ ~exists(target_dir, N_git)
    /\ applied.changes = <<>> /\ target_dir = pre_target
    /\ target_dir # source_dir

\* the entries of the source's top level that are not passed over
TopLevel(source) == {n \in DOMAIN source.kids : ~Ignored(n)}

EntriesFor(changes, path) == {i \in 1..Len(changes) : changes[i].path = path}

FilesInExistingDirs(source, target) ==
    {p \in SyncablePaths(source) :
        /\ isfile(NodeAt(source, p))
        /\ isdir(NodeAt(target, SubSeq(p, 1, Len(p) - 1)))}

\* C19: after a sync_directory call that is no dry run and returns, every such
\* file is in the target with the source's bytes, and the change list has for
\* its path, taken from the top-level source directory, one create/file entry
\* if it was absent, one update/file entry if its bytes differed, and no
\* entry if they were the same.
C19_FilesCopiedAndListed ==
    (applied.called /\ ~applied.raised) =>
       \A p \in FilesInExistingDirs(source_dir, applied.before) :
          LET was == NodeAt(applied.before, p)
              at  == EntriesFor(applied.changes, p)
          IN /\ NodeAt(target_dir, p) = NodeAt(source_dir, p)
             /\ IF was = NodeAt(source_dir, p) THEN at = {}
                ELSE /\ Cardinality(at) = 1
                     /\ \A i \in at :
                           applied.changes[i] =
                              Change(IF was = Missing THEN "create" ELSE "update",
                                     "file", p)

C19_Witness ==
    /\ applied.called /\ ~applied.raised
    /\ {<<N_f>>, <<N_d, N_g>>, <<N_d, N_e, N_k>>}
          \subseteq FilesInExistingDirs(source_dir, applied.before)
    /\ NodeAt(applied.before, <<N_d, N_e, N_k>>) = Missing
    /\ isfile(NodeAt(applied.before, <<N_d, N_g>>))
    /\ NodeAt(applied.before, <<N_d, N_g>>) # NodeAt(source_dir, <<N_d, N_g>>)
    /\ NodeAt(applied.before, <<N_f>>) = NodeAt(source_dir, <<N_f>>)
    /\ Len(applied.changes) = 2

\* the immediate subdirectories of the root whose SKILL.md has a valid
\* preamble with a github_url
TrackedDirs(root) ==
    IF root = Missing THEN {}
    ELSE {n \in DOMAIN root.kids :
            LET doc == NodeAt(root, <<n, N_SKILL>>) IN
            /\ isdir(root.kids[n])
            /\ isfile(doc)
            /\ HasValidPreamble(doc.data)
            /\ "github_url" \in DOMAIN PreambleOf(doc.data)}

\* C18 (as claimed): scan_skills returns one record for each immediate
\* subdirectory whose SKILL.md has a parseable preamble with a github_url, and
\* no record for anything else; each record is the one the skill gets when it
\* is alone in the root.
C18_OneRecordPerTrackedSkill ==
    scan_returned =>
       /\ Len(skill_list) = Cardinality(TrackedDirs(skills_root))
       /\ {skill_list[i].dir : i \in 1..Len(skill_list)} = TrackedDirs(skills_root)
       /\ \A i \in 1..Len(skill_list) :
             <<skill_list[i]>>
                = scan_item(<<>>, skill_list[i].dir, skills_root.kids[skill_list[i].dir])

\* a dry run has left the skill alone: no backup, no copy, no rewrite
DryRunTouchedNothing ==
    /\ skill_dir = skill_before
    /\ ops \cap {"backup", "copy", "rewrite"} = {}

\* C20 (as claimed): a sync with the dry-run flag makes no backup and changes
\* nothing of the skill directory, SKILL.md's github_hash included, and the
\* change list it reports is the one the sync without the flag applies to the
\* same checkout.
C20_DryRunPreviewsRealSync ==
    args.dry_run =>
       /\ DryRunTouchedNothing
       /\ (pc = "finally" /\ pending = "return") =>
             LET real == sync_directory(SyncSource, skill_dir, FALSE) IN
             /\ ~real.raised
             /\ real.changes = result.changes

\* the paths of the source that lie at or beneath an ignored name
IgnoredPaths(tree) ==
    {p \in Paths(tree) : \E i \in 1..Len(p) : Ignored(p[i])}

\* C21 (as claimed): a reconcile copies no entry of the source that is, or
\* lies beneath, an ignored name, at any depth, also beneath a directory it
\* newly creates: at each such path the target holds what it held before.
C21_IgnoredEntriesNeverCopied ==
    (phase = "applied" /\ ~applied.raised) =>
        \A p \in IgnoredPaths(source_dir) :
            NodeAt(target_dir, p) = NodeAt(applied.before, p)

\* what a sync started now on the skill directory would find, the remote
\* being as it is now: the validation of main() and its comparison of hashes
NextSyncFinds(dir, rem) ==
    LET parsed == parse_frontmatter(NodeAt(dir, <<N_SKILL>>))
        fm     == parsed.frontmatter
        url    == get(fm.map, "github_url", "")
        info   == extract_repo_info(url)
        got    == sync_get_remote_hash(recorded_branch(info), rem).result
    IN  IF ~exists(dir, N_SKILL) \/ parsed.err # "" \/ fm.tag # "map" \/ url = ""
        THEN "untrackable"
        ELSE IF got = None \/ got = "" THEN "no remote hash"
        ELSE IF up_to_date(get(fm.map, "github_hash", "unknown"), got) THEN "up to date"
        ELSE "outdated"

\* the sync that has just ended reported success, was no dry run and was not
\* cut short as up to date
SyncedForReal ==
    /\ pc = "exited" /\ exit_code = 0
    /\ result.success /\ result.message = "Synced" /\ ~args.dry_run

\* the reference the sync resolved is still what its branch resolves to
RemoteUnchanged ==
    sync_get_remote_hash(recorded_branch(repo_info), origin.refs).result = remote_hash

\* C22 (as claimed): after a sync that reports success and is no dry run, a
\* second sync of the same skill against the unchanged remote finds the skill
\* trackable and already up to date.
C22_SecondSyncIsUpToDate ==
    (SyncedForReal /\ RemoteUnchanged) =>
        NextSyncFinds(skill_dir, origin.refs) = "up to date"

\* what the staleness checker and the sync resolve for the URL and the remote
\* of the state, and the verdicts they draw for a recorded hash
CheckerResolves == check_get_remote_hash(github_url, remote).result
SyncResolves == sync_get_remote_hash(recorded_branch(github_url), remote).result
CheckerSaysCurrent(local_hash) == status_of(CheckerResolves, local_hash) = "current"
SyncShortCircuits(local_hash) ==
    SyncResolves \notin {None, ""} /\ up_to_date(local_hash, SyncResolves)

\* C23 (as claimed): for the same source URL, of any recognized shape, and the
\* same remote state the staleness checker and the sync query the same clone
\* address and resolve the same reference, so that for every recorded hash
\* the checker reports current exactly when the sync would stop as already up
\* to date.
C23_CheckerAndSyncAgree ==
    (resolution.called /\ resolution.resolver \in {"check", "sync"}) =>
       /\ check_clone_url(url_text) = extract_repo_info_of(url_text).clone_url
       /\ resolution.result =
             IF resolution.resolver = "check" THEN SyncResolves ELSE CheckerResolves
       /\ \A local_hash \in Hashes \cup {"unknown"} :
             CheckerSaysCurrent(local_hash) <=> SyncShortCircuits(local_hash)

\* the recorded reference of a skill directory: github_hash of its SKILL.md
RecordedHash(dir) ==
    LET parsed == parse_frontmatter(NodeAt(dir, <<N_SKILL>>)) IN
    IF parsed.err # "" \/ parsed.frontmatter.tag # "map" THEN None
    ELSE get(parsed.frontmatter.map, "github_hash", None)

\* the staging directory holds the content of the commit, next to its .git
StagingHolds(hash) ==
    /\ temp_dir.state = "present"
    /\ \A p \in Paths(origin.trees[hash]) \cup Paths(temp_dir.tree) :
          Head(p) # N_git => NodeAt(temp_dir.tree, p) = NodeAt(origin.trees[hash], p)

\* a sync that is no dry run has reconciled and rewritten the reference, and
\* is about to remove its staging directory and report success
SyncRecorded ==
    /\ pc = "finally" /\ pending = "return" /\ result.success
    /\ ~args.dry_run /\ "rewrite" \in ops

\* C24 (as claimed): after a successful sync that is no dry run, github_hash
\* names the commit whose content was fetched into staging and copied, also
\* when the branch tip moved between the resolution and the clone.
C24_RecordedHashIsWhatWasCopied ==
    SyncRecorded =>
       /\ RecordedHash(skill_dir) \in Hashes
       /\ StagingHolds(RecordedHash(skill_dir))

\* the reconcile of the running sync stopped with an error part-way
ReconcileCrashed == pc \in {"finally", "exited"} /\ pending = "crash"

\* C25 (as claimed): when the reconcile of a sync stops with an error
\* part-way, the metadata document keeps the github_hash it had when the sync
\* started, and the skill is still found outdated by the next sync.
C25_CrashKeepsRecordedHash ==
    ReconcileCrashed =>
       /\ RecordedHash(skill_dir) = RecordedHash(skill_before)
       /\ NextSyncFinds(skill_dir, origin.refs) = "outdated"

====
